---- MODULE Spec2Model ----
(***************************************************************************)
(* Model of the HID report-descriptor codec                                *)
(* (usb_protocol/types/descriptors/hid.py) and of the HID descriptor       *)
(* emitter (usb_protocol/emitters/descriptors/hid.py).                     *)
(*                                                                         *)
(* Two specifications share the variables:                                 *)
(*   CodecSpec  ReportDescriptor.parse on a byte buffer, then              *)
(*              ReportDescriptor.build on what was parsed;                 *)
(*   Spec       one HIDDescriptor emitter: add_report_raw, add_report_item,*)
(*              add_input_item, add_output_item, add_inpout_item, emit.    *)
(*                                                                         *)
(* Python values are modelled as follows.  A byte string is a sequence of  *)
(* numbers 0..255.  The "data" of an item is a tagged record:              *)
(*   [t |-> "ints",     v |-> <<i1, ..., in>>]  a tuple/list of integers   *)
(*   [t |-> "bytesobj", v |-> <<b1, ..., bk>>]  a 1-tuple holding ONE      *)
(*                                              bytes object b'b1..bk'     *)
(*   [t |-> "flags",    v |-> [name |-> BOOLEAN]] a mapping of flag names  *)
(* A raised exception is the name of its class; "none" is a normal return. *)
(***************************************************************************)
EXTENDS Integers, Sequences, FiniteSets, TLC

VARIABLES
    buf,                \* codec: the buffer handed to ReportDescriptor.parse
    parsed,             \* codec: outcome of ReportDescriptor.parse(buf)
    rebuilt,            \* codec: outcome of ReportDescriptor.build(parsed.items)
    pc,                 \* codec: "start" -> "parsed" -> "built"; "builder" in Spec
    reports,            \* emitter: self._reports
    wDescriptorLength,  \* emitter: the field set by _pre_emit (-1: never set)
    collection,         \* the parent descriptor collection: registered entries
    last,               \* emitter: the last call, its arguments and its outcome
    calls               \* emitter: number of emit() calls made so far

vars == <<buf, parsed, rebuilt, pc, reports, wDescriptorLength, collection, last, calls>>

(***************************************************************************)
(* Bounds of the model.                                                    *)
(***************************************************************************)
MaxBufLen  == 5     \* longest buffer handed to parse
MaxReports == 2     \* most pending contributions of one emitter
MaxEmits   == 2     \* most emit() calls on one emitter

(***************************************************************************)
(* HIDPrefix (IntEnum): the closed set of 6-bit prefixes.                  *)
(***************************************************************************)
INPUT          == 32
OUTPUT         == 36
FEATURE        == 44
COLLECTION     == 40
END_COLLECTION == 48
USAGE_PAGE     == 1
LOGICAL_MIN    == 5
LOGICAL_MAX    == 9
PHYSICAL_MIN   == 13
PHYSICAL_MAX   == 17
UNIT_EXPONENT  == 21
UNIT           == 25
REPORT_SIZE    == 29
REPORT_ID      == 33
REPORT_COUNT   == 37
PUSH           == 41
POP            == 45
USAGE          == 2
USAGE_MIN      == 6
USAGE_MAX      == 10
DESIGNATOR_IDX == 14
DESIGNATOR_MIN == 18
DESIGNATOR_MAX == 22
STRING_IDX     == 30
STRING_MIN     == 34
STRING_MAX     == 38
DELIMITER      == 42

HIDPrefix ==
    { INPUT, OUTPUT, FEATURE, COLLECTION, END_COLLECTION,
      USAGE_PAGE, LOGICAL_MIN, LOGICAL_MAX, PHYSICAL_MIN, PHYSICAL_MAX,
      UNIT_EXPONENT, UNIT, REPORT_SIZE, REPORT_ID, REPORT_COUNT, PUSH, POP,
      USAGE, USAGE_MIN, USAGE_MAX, DESIGNATOR_IDX, DESIGNATOR_MIN,
      DESIGNATOR_MAX, STRING_IDX, STRING_MIN, STRING_MAX, DELIMITER }

(***************************************************************************)
(* _hid_item_length = [0, 1, 2, 4], indexed by bSize (0-based in Python).  *)
(***************************************************************************)
hid_item_length == <<0, 1, 2, 4>>

ItemLength(bSize) == hid_item_length[bSize + 1]

(***************************************************************************)
(* Field lists of the two BitStructs, first field = most significant bit   *)
(* of the first byte (construct's BitStruct is big-endian bit order).      *)
(***************************************************************************)
\* variant: the eight flags listed least significant bit first
ItemFlags1Fields_LsbFirst ==
    << "data_constant", "array_variable", "absolute_relative", "wrap",
       "nLinear", "nPreferred", "null", "volatile" >>

ItemFlags1Fields ==
    << "volatile", "null", "nPreferred", "nLinear",
       "wrap", "absolute_relative", "array_variable", "data_constant" >>

ItemFlags2Fields ==
    << "reserved6", "reserved5", "reserved4", "reserved3",
       "reserved2", "reserved1", "reserved0", "bitfield_bufferedbytes",
       "volatile", "null", "nPreferred", "nLinear",
       "wrap", "absolute_relative", "array_variable", "data_constant" >>

Range(s) == { s[i] : i \in 1..Len(s) }

Pow2(n) == 2 ^ n

\* bit i (0 = least significant) of byte b
Bit(b, i) == (b \div Pow2(i)) % 2

\* 0-based position of a field name in a field list
FieldIndex(fields, name) == (CHOOSE i \in 1..Len(fields) : fields[i] = name) - 1

(***************************************************************************)
(* construct.BitStruct over construct.Flag fields.                         *)
(* Parsing turns the bytes into a bit stream, most significant bit first,  *)
(* and gives field number i (0-based) bit i of the stream.  Building packs *)
(* the named flags the same way; a Flag has no default, so a missing key   *)
(* raises KeyError.                                                        *)
(***************************************************************************)
BitStructSize(fields) == Len(fields) \div 8

\* variant: field number i takes bit i of its byte counted from the least
\* significant end
BitStructParse_LsbFirst(fields, bytes) ==
    [ name \in Range(fields) |->
        LET i == FieldIndex(fields, name)
        IN  Bit(bytes[(i \div 8) + 1], i % 8) = 1 ]

BitStructParse(fields, bytes) ==
    [ name \in Range(fields) |->
        LET i == FieldIndex(fields, name)
        IN  Bit(bytes[(i \div 8) + 1], 7 - (i % 8)) = 1 ]

FlagBit(m, fields, k, j) == IF m[fields[8 * (k - 1) + j + 1]] THEN Pow2(7 - j) ELSE 0

\* variant: the two bytes of a 16-bit record are written low byte first
BitStructBuild_Swapped(fields, m) ==
    [ k \in 1..BitStructSize(fields) |->
        LET q == BitStructSize(fields) + 1 - k
        IN    FlagBit(m, fields, q, 0) + FlagBit(m, fields, q, 1)
            + FlagBit(m, fields, q, 2) + FlagBit(m, fields, q, 3)
            + FlagBit(m, fields, q, 4) + FlagBit(m, fields, q, 5)
            + FlagBit(m, fields, q, 6) + FlagBit(m, fields, q, 7) ]

BitStructBuild(fields, m) ==
    [ k \in 1..BitStructSize(fields) |->
          FlagBit(m, fields, k, 0) + FlagBit(m, fields, k, 1)
        + FlagBit(m, fields, k, 2) + FlagBit(m, fields, k, 3)
        + FlagBit(m, fields, k, 4) + FlagBit(m, fields, k, 5)
        + FlagBit(m, fields, k, 6) + FlagBit(m, fields, k, 7) ]

(***************************************************************************)
(* The constructs a payload can be: construct.Byte[n] or a BitStruct.      *)
(***************************************************************************)
ByteArray(n)      == [kind |-> "Byte", n |-> n, fields |-> <<>>]
BitStruct(fields) == [kind |-> "BitStruct", n |-> BitStructSize(fields), fields |-> fields]

IntsData(s)     == [t |-> "ints", v |-> s]
BytesObjData(b) == [t |-> "bytesobj", v |-> b]
FlagsData(m)    == [t |-> "flags", v |-> m]

\* variant: the extended record selected by size class 3, plain bytes by 2
hid_item_flags_ExtendedAt3 ==
    << [kind |-> "Byte", n |-> 0, fields |-> <<>>],
       [kind |-> "BitStruct", n |-> 1, fields |-> ItemFlags1Fields],
       [kind |-> "Byte", n |-> 2, fields |-> <<>>],
       [kind |-> "BitStruct", n |-> 2, fields |-> ItemFlags2Fields] >>

\* _hid_item_flags = dict(enumerate([Byte[0], ItemFlags1, ItemFlags2, Byte[4]]))
hid_item_flags ==
    << ByteArray(0), BitStruct(ItemFlags1Fields), BitStruct(ItemFlags2Fields), ByteArray(4) >>

\* ItemFlags = construct.Switch(this.bHeader.bSize, _hid_item_flags)
ItemFlags(bSize) == hid_item_flags[bSize + 1]

\* HasItemFlags(ctx), for a prefix that is a member of HIDPrefix
HasItemFlags(prefix) == prefix \in {INPUT, OUTPUT, FEATURE}

\* "data" / IfThenElse(HasItemFlags, ItemFlags, Byte[_hid_item_length[bSize]])
DataConstruct(prefix, bSize) ==
    IF HasItemFlags(prefix) THEN ItemFlags(bSize) ELSE ByteArray(ItemLength(bSize))

(***************************************************************************)
(* Parsing one construct at 1-based position pos of buffer b.              *)
(***************************************************************************)
Slice(b, pos, n) == [ i \in 1..n |-> b[pos + i - 1] ]

SubconParse(sc, b, pos) ==
    IF pos + sc.n - 1 > Len(b)
    THEN [exc |-> "StreamError", data |-> IntsData(<<>>)]
    ELSE IF sc.kind = "Byte"
         THEN [exc |-> "none", data |-> IntsData(Slice(b, pos, sc.n))]
         ELSE [exc |-> "none",
               data |-> FlagsData(BitStructParse(sc.fields, Slice(b, pos, sc.n)))]

(***************************************************************************)
(* Building one construct from a Python value.                             *)
(*   Byte[n]    wants a sequence of n integers (RangeError on another      *)
(*              length, FormatFieldError on a non-integer element);        *)
(*   BitStruct  wants a mapping holding every field: Struct._build does    *)
(*              context.update(obj) and obj[name], which raise on a tuple. *)
(***************************************************************************)
SubconBuild(sc, data) ==
    IF sc.kind = "Byte"
    THEN CASE data.t = "ints" ->
                IF Len(data.v) = sc.n
                THEN [exc |-> "none", bytes |-> data.v]
                ELSE [exc |-> "RangeError", bytes |-> <<>>]
           [] data.t = "bytesobj" ->
                IF sc.n = 1
                THEN [exc |-> "FormatFieldError", bytes |-> <<>>]
                ELSE [exc |-> "RangeError", bytes |-> <<>>]
           [] data.t = "flags" ->
                [exc |-> "RangeError", bytes |-> <<>>]
    ELSE CASE data.t = "flags" ->
                IF Range(sc.fields) \subseteq DOMAIN data.v
                THEN [exc |-> "none", bytes |-> BitStructBuild(sc.fields, data.v)]
                ELSE [exc |-> "KeyError", bytes |-> <<>>]
           [] data.t = "ints" ->
                [exc |-> "TypeError", bytes |-> <<>>]
           [] data.t = "bytesobj" ->
                IF Len(data.v) = 2
                THEN [exc |-> "TypeError", bytes |-> <<>>]
                ELSE [exc |-> "ValueError", bytes |-> <<>>]

(***************************************************************************)
(* ReportDescriptorItem: the header BitStruct (prefix: 6 bits, bSize: 2    *)
(* bits) and the data.  construct.Enum parses a value outside HIDPrefix    *)
(* to a bare integer without raising; HasItemFlags then reads .intvalue of *)
(* it, which raises AttributeError.                                        *)
(***************************************************************************)
HeaderPrefix(h) == h \div 4
HeaderSize(h)   == h % 4
HeaderByte(prefix, bSize) == prefix * 4 + bSize

Item(prefix, bSize, data) == [bHeader |-> [prefix |-> prefix, bSize |-> bSize], data |-> data]

NoItem == Item(0, 0, IntsData(<<>>))

ReportDescriptorItemParse(b, pos) ==
    IF pos > Len(b)
    THEN [exc |-> "StreamError", item |-> NoItem, next |-> pos]
    ELSE LET prefix == HeaderPrefix(b[pos])
             bSize  == HeaderSize(b[pos])
         IN  IF prefix \notin HIDPrefix
             THEN [exc |-> "AttributeError", item |-> NoItem, next |-> pos]
             ELSE LET sc == DataConstruct(prefix, bSize)
                      d  == SubconParse(sc, b, pos + 1)
                  IN  IF d.exc # "none"
                      THEN [exc |-> d.exc, item |-> NoItem, next |-> pos]
                      ELSE [exc |-> "none",
                            item |-> Item(prefix, bSize, d.data),
                            next |-> pos + 1 + sc.n]

ReportDescriptorItemBuild(item) ==
    LET d == SubconBuild(DataConstruct(item.bHeader.prefix, item.bHeader.bSize), item.data)
    IN  IF d.exc # "none"
        THEN d
        ELSE [exc |-> "none",
              bytes |-> <<HeaderByte(item.bHeader.prefix, item.bHeader.bSize)>> \o d.bytes]

(***************************************************************************)
(* ReportDescriptor = GreedyRange(ReportDescriptorItem).                   *)
(* GreedyRange parses items until one raises; it catches the exception,    *)
(* seeks back to where that item began and returns the items before it.    *)
(* parse() does not require the buffer to be consumed.                     *)
(***************************************************************************)
RECURSIVE GreedyRangeParse(_, _, _)
GreedyRangeParse(b, pos, acc) ==
    LET r == ReportDescriptorItemParse(b, pos)
    IN  IF r.exc # "none"
        THEN [exc |-> "none", items |-> acc, consumed |-> pos - 1, stopped |-> r.exc]
        ELSE GreedyRangeParse(b, r.next, Append(acc, r.item))

ReportDescriptorParse(b) == GreedyRangeParse(b, 1, <<>>)

RECURSIVE GreedyRangeBuild(_, _, _)
GreedyRangeBuild(items, i, acc) ==
    IF i > Len(items)
    THEN [exc |-> "none", bytes |-> acc]
    ELSE LET r == ReportDescriptorItemBuild(items[i])
         IN  IF r.exc # "none"
             THEN [exc |-> r.exc, bytes |-> <<>>]
             ELSE GreedyRangeBuild(items, i + 1, acc \o r.bytes)

ReportDescriptorBuild(items) == GreedyRangeBuild(items, 1, <<>>)

(***************************************************************************)
(* CodecSpec: ReportDescriptor.parse(buf), then ReportDescriptor.build of  *)
(* the parsed items.  The buffer is any byte string of at most MaxBufLen   *)
(* bytes over ByteSample, which holds headers of flagged prefixes in every *)
(* size class (0x90 OUTPUT/0, 0x81 INPUT/1, 0x82 INPUT/2, 0xB3 FEATURE/3), *)
(* headers of other prefixes in every size class (0xC0 END_COLLECTION/0,   *)
(* 0x95 REPORT_COUNT/1, 0x06 USAGE_PAGE/2, 0x2B USAGE_MAX/3)   and bytes   *)
(* whose prefix is no member of HIDPrefix (0x01, 0x02: prefix 0).          *)
(***************************************************************************)
ByteSample == { 1, 2, 6, 43, 129, 130, 144, 149, 179, 192 }

Buffers == UNION { [1..n -> ByteSample] : n \in 0..MaxBufLen }

NotParsed == [exc |-> "none", items |-> <<>>, consumed |-> 0, stopped |-> "none"]
NotBuilt  == [exc |-> "none", bytes |-> <<>>]
NoCall    == [op |-> "none", exc |-> "none"]

CodecInit ==
    /\ buf \in Buffers
    /\ parsed = NotParsed
    /\ rebuilt = NotBuilt
    /\ pc = "start"
    /\ reports = <<>>
    /\ wDescriptorLength = -1
    /\ collection = <<>>
    /\ last = NoCall
    /\ calls = 0

\* parsed = ReportDescriptor.parse(buf)
DoParse ==
    /\ pc = "start"
    /\ parsed' = ReportDescriptorParse(buf)
    /\ pc' = "parsed"
    /\ UNCHANGED <<buf, rebuilt, reports, wDescriptorLength, collection, last, calls>>

\* rebuilt = ReportDescriptor.build(parsed)
DoBuild ==
    /\ pc = "parsed"
    /\ rebuilt' = ReportDescriptorBuild(parsed.items)
    /\ pc' = "built"
    /\ UNCHANGED <<buf, parsed, reports, wDescriptorLength, collection, last, calls>>

CodecNext == DoParse \/ DoBuild

CodecSpec == CodecInit /\ [][CodecNext]_vars

(***************************************************************************)
(* The HIDDescriptor emitter.                                              *)
(* self._reports is a list of contributions: raw bytes, or an item emitter *)
(* (ReportDescriptorItemEmitter) whose fields are bHeader and data.        *)
(***************************************************************************)
RawReport(b)     == [kind |-> "raw", bytes |-> b, item |-> NoItem]
ItemReport(item) == [kind |-> "item", bytes |-> <<>>, item |-> item]

\* len(report_data) of the *report_data tuple
DataLen(data) == IF data.t = "ints" THEN Len(data.v) ELSE 1

\* _hid_item_length.index(n): ValueError when n is not in the list
InTable(n) == \E i \in 1..Len(hid_item_length) : hid_item_length[i] = n

TableIndex(n) == (CHOOSE i \in 1..Len(hid_item_length) : hid_item_length[i] = n) - 1

\* variant: the size class is taken to be the payload length itself
AddReportItem_SizeIsLength(rs, report_prefix, report_data) ==
    IF DataLen(report_data) > 3
    THEN [exc |-> "ValueError", reports |-> rs]
    ELSE [exc |-> "none",
          reports |-> Append(rs, [kind |-> "item", bytes |-> <<>>,
              item |-> Item(report_prefix, DataLen(report_data), report_data)])]

\* add_report_item(report_prefix, *report_data) applied to the list rs
AddReportItem(rs, report_prefix, report_data) ==
    IF ~InTable(DataLen(report_data))
    THEN [exc |-> "ValueError", reports |-> rs]
    ELSE [exc |-> "none",
          reports |-> Append(rs, ItemReport(
              Item(report_prefix, TableIndex(DataLen(report_data)), report_data)))]

\* the keyword parameters of add_inpout_item and their defaults
ArgNames ==
    { "data_constant", "array_variable", "absolute_relative", "wrap",
      "linear", "preferred", "null", "volatile", "bitfield_bufferedbytes" }

DefaultArgs ==
    [ data_constant          |-> FALSE,
      array_variable         |-> TRUE,
      absolute_relative      |-> FALSE,
      wrap                   |-> FALSE,
      linear                 |-> FALSE,
      preferred              |-> TRUE,
      null                   |-> FALSE,
      volatile               |-> FALSE,
      bitfield_bufferedbytes |-> FALSE ]

\* the parameters as bound for a call that passes the keywords kw
BindArgs(kw) == [ n \in ArgNames |-> IF n \in DOMAIN kw THEN kw[n] ELSE DefaultArgs[n] ]

\* the dict handed to itmf.build
FlagDict(args) ==
    [ data_constant     |-> args.data_constant,
      array_variable    |-> args.array_variable,
      absolute_relative |-> args.absolute_relative,
      wrap              |-> args.wrap,
      nLinear           |-> ~args.linear,
      nPreferred        |-> ~args.preferred,
      null              |-> args.null,
      volatile          |-> args.volatile ]

\* itmf: ItemFlags2 if bitfield_bufferedbytes else ItemFlags1
FlagShape(args) ==
    IF args.bitfield_bufferedbytes THEN BitStruct(ItemFlags2Fields)
                                   ELSE BitStruct(ItemFlags1Fields)

\* item_flags = itmf.build({...})
ItemFlagsBuild(args) == SubconBuild(FlagShape(args), FlagsData(FlagDict(args)))

\* add_inpout_item(item, **kw) applied to the list rs: the flags are built
\* to a bytes object, which is passed to add_report_item as ONE argument
AddInpoutItem(rs, item, kw) ==
    LET args == BindArgs(kw)
        f    == ItemFlagsBuild(args)
        r    == AddReportItem(rs, item, BytesObjData(f.bytes))
    IN  IF f.exc # "none"
        THEN [exc |-> f.exc, reports |-> rs, item_flags |-> <<>>]
        ELSE [exc |-> r.exc, reports |-> r.reports, item_flags |-> f.bytes]

\* _pre_emit, the loop: report.emit() for an emitter, the bytes otherwise
RECURSIVE JoinReports(_, _, _)
JoinReports(rs, i, acc) ==
    IF i > Len(rs)
    THEN [exc |-> "none", bytes |-> acc]
    ELSE IF rs[i].kind = "raw"
         THEN JoinReports(rs, i + 1, acc \o rs[i].bytes)
         ELSE LET r == ReportDescriptorItemBuild(rs[i].item)
              IN  IF r.exc # "none"
                  THEN [exc |-> r.exc, bytes |-> <<>>]
                  ELSE JoinReports(rs, i + 1, acc \o r.bytes)

\* the HID descriptor header with its defaults and the given length
HIDDescriptorBuild(len) == << 9, 33, 17, 1, 0, 1, 34, len % 256, len \div 256 >>

\* parent_descriptor.add_descriptor(report_descriptor, descriptor_type=...)
AddDescriptor(coll, descriptor, descriptor_type) ==
    Append(coll, [descriptor_type |-> descriptor_type, descriptor |-> descriptor])

REPORT_DESCRIPTOR_TYPE == 34

(***************************************************************************)
(* Spec: the calls on one HIDDescriptor emitter, with arguments drawn from *)
(* small sets.  `last` records the last call: its name, its arguments and  *)
(* the exception it raised ("none": it returned).                          *)
(***************************************************************************)
RawSample == { <<192>>, <<5, 1>> }

PrefixSample == { USAGE_PAGE, INPUT }

\* payloads of 0, 1, 2, 3, 4 and 5 integers
PayloadSample ==
    { <<>>, <<1>>, <<224, 1>>, <<1, 2, 3>>, <<1, 2, 3, 4>>, <<1, 2, 3, 4, 5>> }

\* keyword arguments: none, one parameter given the value that is not its
\* default, linear and preferred both given, and all eight flags given
KwargsSample ==
    { << >> }
    \cup { [ n \in {a} |-> ~DefaultArgs[a] ] : a \in ArgNames }
    \cup { [ linear |-> TRUE, preferred |-> TRUE ] }
    \cup { [ data_constant |-> FALSE, array_variable |-> TRUE,
             absolute_relative |-> FALSE, wrap |-> FALSE, linear |-> TRUE,
             preferred |-> TRUE, null |-> FALSE, volatile |-> FALSE ] }

\* the smaller sample used for add_output_item and add_inpout_item
KwargsFew == { << >>, [ bitfield_bufferedbytes |-> TRUE ] }

Init ==
    /\ buf = <<>>
    /\ parsed = NotParsed
    /\ rebuilt = NotBuilt
    /\ pc = "builder"
    /\ reports = <<>>
    /\ wDescriptorLength = -1
    /\ collection = <<>>
    /\ last = NoCall
    /\ calls = 0

Untouched == UNCHANGED <<buf, parsed, rebuilt, pc>>

add_report_raw(report_data) ==
    /\ Len(reports) < MaxReports
    /\ reports' = Append(reports, RawReport(report_data))
    /\ last' = [op |-> "add_report_raw", exc |-> "none", report_data |-> report_data]
    /\ UNCHANGED <<wDescriptorLength, collection, calls>>
    /\ Untouched

add_report_item(report_prefix, report_data) ==
    LET r == AddReportItem(reports, report_prefix, IntsData(report_data))
    IN  /\ Len(reports) < MaxReports
        /\ reports' = r.reports
        /\ last' = [op |-> "add_report_item", exc |-> r.exc,
                    report_prefix |-> report_prefix, report_data |-> report_data]
        /\ UNCHANGED <<wDescriptorLength, collection, calls>>
        /\ Untouched

\* the body shared by add_inpout_item and its two wrappers
InpoutCall(op, item, kw) ==
    LET r == AddInpoutItem(reports, item, kw)
    IN  /\ reports' = r.reports
        /\ last' = [op |-> op, exc |-> r.exc, item |-> item,
                    given |-> DOMAIN kw, args |-> BindArgs(kw),
                    item_flags |-> r.item_flags]
        /\ UNCHANGED <<wDescriptorLength, collection, calls>>
        /\ Untouched

add_inpout_item(item, kw) ==
    /\ Len(reports) < MaxReports
    /\ InpoutCall("add_inpout_item", item, kw)

\* return self.add_inpout_item(HIDPrefix.INPUT, *args, **kwargs)
add_input_item(kw) ==
    /\ Len(reports) < MaxReports
    /\ InpoutCall("add_input_item", INPUT, kw)

\* return self.add_inpout_item(HIDPrefix.OUTPUT, *args, **kwargs)
add_output_item(kw) ==
    /\ Len(reports) < MaxReports
    /\ InpoutCall("add_output_item", OUTPUT, kw)

\* emit(): _pre_emit, then the header is serialized and returned
emit ==
    LET r == JoinReports(reports, 1, <<>>)
    IN  /\ calls < MaxEmits
        /\ calls' = calls + 1
        /\ IF r.exc # "none"
           THEN /\ last' = [op |-> "emit", exc |-> r.exc, ret |-> <<>>]
                /\ UNCHANGED <<wDescriptorLength, collection>>
           ELSE /\ wDescriptorLength' = Len(r.bytes)
                /\ collection' = AddDescriptor(collection, r.bytes, REPORT_DESCRIPTOR_TYPE)
                /\ last' = [op |-> "emit", exc |-> "none",
                            ret |-> HIDDescriptorBuild(Len(r.bytes))]
        /\ UNCHANGED reports
        /\ Untouched

Next ==
    \/ \E b \in RawSample : add_report_raw(b)
    \/ \E p \in PrefixSample, d \in PayloadSample : add_report_item(p, d)
    \/ \E kw \in KwargsSample : add_input_item(kw)
    \/ \E kw \in KwargsFew : add_output_item(kw)
    \/ \E kw \in KwargsFew : add_inpout_item(FEATURE, kw)
    \/ emit

Spec == Init /\ [][Next]_vars

(***************************************************************************)
(* Vocabulary of the properties: the wire format as the HID grammar states *)
(* it, walked with the size-class table alone (no use of the parser).      *)
(***************************************************************************)
SizeTable(sizeClass) == CASE sizeClass = 0 -> 0 [] sizeClass = 1 -> 1
                          [] sizeClass = 2 -> 2 [] sizeClass = 3 -> 4

\* b[pos..] is a concatenation of whole items with prefixes of the closed set
RECURSIVE WellFormedFrom(_, _)
WellFormedFrom(b, pos) ==
    IF pos = Len(b) + 1 THEN TRUE
    ELSE IF pos > Len(b) + 1 THEN FALSE
    ELSE /\ (b[pos] \div 4) \in HIDPrefix
         /\ WellFormedFrom(b, pos + 1 + SizeTable(b[pos] % 4))

WellFormed(b) == WellFormedFrom(b, 1)

\* position of the header byte of item number i
RECURSIVE StartOf(_, _)
StartOf(b, i) ==
    IF i = 1 THEN 1
    ELSE LET s == StartOf(b, i - 1) IN s + 1 + SizeTable(b[s] % 4)

\* number of items of a well-formed buffer
RECURSIVE CountFrom(_, _)
CountFrom(b, pos) ==
    IF pos > Len(b) THEN 0 ELSE 1 + CountFrom(b, pos + 1 + SizeTable(b[pos] % 4))

Flagged(item) == item.bHeader.prefix \in {INPUT, OUTPUT, FEATURE}

BasicFlags ==
    { "data_constant", "array_variable", "absolute_relative", "wrap",
      "nLinear", "nPreferred", "null", "volatile" }

\* the eight basic flags of record v are the bits 0..7 of byte x
BasicFlagsAre(v, x) ==
    /\ v.data_constant     = (Bit(x, 0) = 1)
    /\ v.array_variable    = (Bit(x, 1) = 1)
    /\ v.absolute_relative = (Bit(x, 2) = 1)
    /\ v.wrap              = (Bit(x, 3) = 1)
    /\ v.nLinear           = (Bit(x, 4) = 1)
    /\ v.nPreferred        = (Bit(x, 5) = 1)
    /\ v.null              = (Bit(x, 6) = 1)
    /\ v.volatile          = (Bit(x, 7) = 1)

\* array_variable is set and the other seven basic flags are clear
OnlyArrayVariable(v) ==
    \A n \in BasicFlags : v[n] = (n = "array_variable")

InpoutOps == { "add_inpout_item", "add_input_item", "add_output_item" }

\* the arguments of the literal case of the flag bit order
C3Args ==
    [ data_constant |-> FALSE, array_variable |-> TRUE, absolute_relative |-> FALSE,
      wrap |-> FALSE, linear |-> TRUE, preferred |-> TRUE, null |-> FALSE,
      volatile |-> FALSE, bitfield_bufferedbytes |-> FALSE ]

\* total encoded length of the contributions rs[i..]: a raw contribution
\* counts its bytes, an item a header byte and SizeTable[size class] bytes
RECURSIVE EncodedLength(_, _)
EncodedLength(rs, i) ==
    IF i > Len(rs) THEN 0
    ELSE (IF rs[i].kind = "raw" THEN Len(rs[i].bytes)
                                ELSE 1 + SizeTable(rs[i].item.bHeader.bSize))
         + EncodedLength(rs, i + 1)

\* the size class that selects a payload of n bytes
SizeClassOf(n) == CASE n = 0 -> 0 [] n = 1 -> 1 [] n = 2 -> 2 [] n = 4 -> 3

(***************************************************************************)
(* C1  Round trip: for every well-formed buffer, building the items that   *)
(* parsing it returned gives back the buffer byte for byte, and the items  *)
(* are the buffer's items in the buffer's order.                           *)
(***************************************************************************)
C1_RoundTrip ==
    (pc = "built" /\ WellFormed(buf)) =>
        /\ rebuilt.exc = "none"
        /\ rebuilt.bytes = buf
        /\ Len(parsed.items) = CountFrom(buf, 1)
        /\ \A i \in 1..Len(parsed.items) :
              HeaderByte(parsed.items[i].bHeader.prefix, parsed.items[i].bHeader.bSize)
                  = buf[StartOf(buf, i)]

\* a well-formed buffer of two items, one of them a flag record, was rebuilt
C1_Witness ==
    /\ pc = "built"
    /\ WellFormed(buf)
    /\ Len(parsed.items) = 2
    /\ parsed.items[1].data.t = "flags"
    /\ parsed.items[2].data.t = "ints"

(***************************************************************************)
(* C3  Flag bit order of the 1-byte flag record: the flags (False, True,   *)
(* False, False, linear, preferred, False, False) encode to the byte 0x02; *)
(* decoding a flagged item with a 1-byte payload gives data_constant from  *)
(* bit 0, array_variable from bit 1, absolute_relative from bit 2, wrap    *)
(* from bit 3, nLinear from bit 4, nPreferred from bit 5, null from bit 6  *)
(* and volatile from bit 7, so that 0x81 0x02 decodes to array_variable    *)
(* alone.  Checked on the flag byte every add_*_item call builds and on    *)
(* the item made of the call's header byte and that flag byte.             *)
(***************************************************************************)
C3_FlagBitOrder ==
    (last.op \in InpoutOps /\ last.exc = "none") =>
        LET fl == last.item_flags
            p  == ReportDescriptorParse(<<HeaderByte(last.item, 1)>> \o fl)
        IN  /\ Len(fl) = 1
            /\ (last.args = C3Args => fl = <<2>>)
            /\ Len(p.items) = 1
            /\ p.items[1].data.t = "flags"
            /\ DOMAIN p.items[1].data.v = BasicFlags
            /\ BasicFlagsAre(p.items[1].data.v, fl[1])
            /\ p.items[1].data.v.nLinear = ~last.args.linear
            /\ p.items[1].data.v.array_variable = last.args.array_variable
            /\ (fl = <<2>> /\ last.item = INPUT => OnlyArrayVariable(p.items[1].data.v))

\* add_input_item was called with the eight flags of the literal case
C3_Witness ==
    /\ last.op = "add_input_item"
    /\ last.exc = "none"
    /\ last.args = C3Args
    /\ Cardinality(last.given) = 8
    /\ last.item_flags = <<2>>

(***************************************************************************)
(* C4  (as claimed) For a prefix INPUT, OUTPUT or FEATURE the payload is   *)
(* decoded as a flag record exactly when the size class selects 1 or 4     *)
(* bytes, and as plain bytes when it selects 0 or 2 bytes; for every other *)
(* prefix it is SizeTable[size class] plain bytes.                         *)
(***************************************************************************)
C4_AsClaimed ==
    pc # "start" =>
        \A i \in 1..Len(parsed.items) :
            LET it == parsed.items[i]
                n  == SizeTable(it.bHeader.bSize)
            IN  IF Flagged(it)
                THEN (it.data.t = "flags") <=> (n \in {1, 4})
                ELSE it.data.t = "ints" /\ Len(it.data.v) = n

(***************************************************************************)
(* C4  (amended) For a prefix INPUT, OUTPUT or FEATURE the payload is      *)
(* decoded as a flag record exactly when the size class is 1 (1 byte: the  *)
(* 8-flag record) or 2 (2 bytes: the extended record, which has            *)
(* bitfield_bufferedbytes), and as plain bytes when the size class is 0 or *)
(* 3 (0 or 4 bytes); for every other prefix it is SizeTable[size class]    *)
(* plain bytes in all four size classes.                                   *)
(***************************************************************************)
C4_PayloadDispatch ==
    pc # "start" =>
        \A i \in 1..Len(parsed.items) :
            LET it == parsed.items[i]
                n  == SizeTable(it.bHeader.bSize)
            IN  IF Flagged(it)
                THEN CASE it.bHeader.bSize = 1 ->
                            it.data.t = "flags" /\ DOMAIN it.data.v = BasicFlags
                       [] it.bHeader.bSize = 2 ->
                            /\ it.data.t = "flags"
                            /\ BasicFlags \cup {"bitfield_bufferedbytes"} \subseteq DOMAIN it.data.v
                       [] OTHER ->
                            it.data.t = "ints" /\ Len(it.data.v) = n
                ELSE it.data.t = "ints" /\ Len(it.data.v) = n

\* a parsed buffer holding a flagged item of size class 2 and one of size class 0
C4_Witness ==
    /\ pc = "parsed"
    /\ \E i, j \in 1..Len(parsed.items) :
          /\ Flagged(parsed.items[i]) /\ parsed.items[i].bHeader.bSize = 2
          /\ parsed.items[i].data.t = "flags"
          /\ Flagged(parsed.items[j]) /\ parsed.items[j].bHeader.bSize = 0
          /\ parsed.items[j].data.t = "ints"

(***************************************************************************)
(* C5  Extended flag record: the buffer 0x82 0x01 0x02 decodes to exactly  *)
(* one item whose data has bitfield_bufferedbytes and array_variable set   *)
(* and every other basic flag clear; in every decoded extended record      *)
(* bitfield_bufferedbytes is bit 0 of the first payload byte and the eight *)
(* basic flags are the bits of the second payload byte, placed as in the   *)
(* 1-byte record.                                                          *)
(***************************************************************************)
C5_ExtendedFlagRecord ==
    pc # "start" =>
        /\ buf = <<130, 1, 2>> =>
              /\ Len(parsed.items) = 1
              /\ parsed.items[1].bHeader = [prefix |-> INPUT, bSize |-> 2]
              /\ parsed.items[1].data.t = "flags"
              /\ parsed.items[1].data.v.bitfield_bufferedbytes
              /\ OnlyArrayVariable(parsed.items[1].data.v)
        /\ \A i \in 1..Len(parsed.items) :
              LET it == parsed.items[i]
                  s  == StartOf(buf, i)
              IN  (Flagged(it) /\ it.bHeader.bSize = 2) =>
                      /\ it.data.t = "flags"
                      /\ it.data.v.bitfield_bufferedbytes = (Bit(buf[s + 1], 0) = 1)
                      /\ BasicFlagsAre(it.data.v, buf[s + 2])

\* the literal buffer was parsed
C5_Witness ==
    /\ pc = "parsed"
    /\ buf = <<130, 1, 2>>
    /\ Len(parsed.items) = 1

(***************************************************************************)
(* C6  Decoding is all-or-nothing: parse returns items only for a buffer   *)
(* that its items consume exactly; on a payload cut short or on a prefix   *)
(* outside the closed set it fails, and the items before the bad one are   *)
(* not returned.                                                           *)
(***************************************************************************)
C6_AllOrNothing ==
    pc # "start" =>
        IF WellFormed(buf)
        THEN parsed.exc = "none" /\ parsed.consumed = Len(buf)
        ELSE parsed.exc # "none" /\ parsed.items = <<>>

(***************************************************************************)
(* C2  Builder length computation: whatever was added, emit() returns a    *)
(* header whose wDescriptorLength is the total encoded length K of the     *)
(* contributions (a raw contribution counts its bytes, an item one header  *)
(* byte and SizeTable[size class] payload bytes) and registers a type-0x22 *)
(* descriptor of exactly those K bytes.                                    *)
(***************************************************************************)
C2_EmitLength ==
    last.op = "emit" =>
        LET K == EncodedLength(reports, 1)
        IN  /\ last.exc = "none"
            /\ wDescriptorLength = K
            /\ Len(last.ret) = 9
            /\ last.ret[8] + 256 * last.ret[9] = K
            /\ Len(collection) >= 1
            /\ collection[Len(collection)].descriptor_type = 34
            /\ Len(collection[Len(collection)].descriptor) = K

(***************************************************************************)
(* C7  Flag defaults and polarity: a call of add_input_item,               *)
(* add_output_item or add_inpout_item without flag arguments encodes       *)
(* array_variable alone (the byte 0x02); with any arguments the nLinear    *)
(* bit is NOT linear and the nPreferred bit is NOT preferred.              *)
(***************************************************************************)
C7_DefaultsAndPolarity ==
    (last.op \in InpoutOps /\ ~last.args.bitfield_bufferedbytes) =>
        /\ last.exc = "none"
        /\ Len(last.item_flags) = 1
        /\ (Bit(last.item_flags[1], 4) = 1) = ~last.args.linear
        /\ (Bit(last.item_flags[1], 5) = 1) = ~last.args.preferred
        /\ (last.given = {} => last.item_flags = <<2>>)

(***************************************************************************)
(* C8  add_report_item(prefix, *payload): with 0, 1, 2 or 4 payload bytes  *)
(* it appends exactly one item to the end of the pending list, with the    *)
(* given prefix, the size class 0, 1, 2 or 3 respectively and the given    *)
(* bytes as data; with any other number of bytes it raises and leaves the  *)
(* pending list as it was.                                                 *)
(***************************************************************************)
C8_AddReportItem ==
    [][ last'.op = "add_report_item" =>
            LET n == Len(last'.report_data)
            IN  IF n \in {0, 1, 2, 4}
                THEN /\ last'.exc = "none"
                     /\ Len(reports') = Len(reports) + 1
                     /\ SubSeq(reports', 1, Len(reports)) = reports
                     /\ reports'[Len(reports')].kind = "item"
                     /\ reports'[Len(reports')].item.bHeader =
                            [prefix |-> last'.report_prefix, bSize |-> SizeClassOf(n)]
                     /\ reports'[Len(reports')].item.data = IntsData(last'.report_data)
                ELSE /\ last'.exc = "ValueError"
                     /\ reports' = reports ]_vars

\* a call with three payload bytes was refused while a contribution was pending
C8_Witness ==
    /\ last.op = "add_report_item"
    /\ Len(last.report_data) = 3
    /\ last.exc = "ValueError"
    /\ Len(reports) >= 1

(***************************************************************************)
(* C9  Item length invariant: every item of the pending list encodes to    *)
(* exactly 1 + SizeTable[size class] bytes, and a flag item asked for with *)
(* bitfield_bufferedbytes is appended with the size class of the extended  *)
(* record.                                                                 *)
(***************************************************************************)
C9_ItemLength ==
    /\ \A i \in 1..Len(reports) :
          reports[i].kind = "item" =>
              LET r == ReportDescriptorItemBuild(reports[i].item)
              IN  /\ r.exc = "none"
                  /\ Len(r.bytes) = 1 + SizeTable(reports[i].item.bHeader.bSize)
    /\ (last.op \in InpoutOps /\ last.args.bitfield_bufferedbytes) =>
          /\ last.exc = "none"
          /\ Len(reports) >= 1
          /\ SizeTable(reports[Len(reports)].item.bHeader.bSize) = Len(last.item_flags)

(***************************************************************************)
(* C10  Two-phase protocol: the add calls never touch the collection and   *)
(* only append to the pending list; every emit() call registers exactly    *)
(* one type-0x22 entry and leaves the pending list alone, so the number of *)
(* registered entries is the number of emit() calls made.                  *)
(***************************************************************************)
C10_OneEntryPerEmit ==
    /\ Len(collection) = calls
    /\ \A i \in 1..Len(collection) : collection[i].descriptor_type = 34

====
